---------------------------- MODULE Spec2Model ----------------------------
(***************************************************************************)
(* A model of utils/gen.py: class UtteranceGenerator.                      *)
(*                                                                         *)
(* Python strings are modelled as sequences of one-character strings, so   *)
(* that substring search, slicing, regular-expression substitution and     *)
(* tokenisation are computed character by character as the code does.      *)
(* Indices in the comments are Python's (0-based); the operators convert.  *)
(***************************************************************************)
EXTENDS Integers, Sequences, FiniteSets, Bags

(***************************************************************************)
(* Characters.  Only ASCII is modelled: letters, digits, '_' and the        *)
(* separators the specifications below put into their strings.             *)
(***************************************************************************)
UpperLetters == <<"A","B","C","D","E","F","G","H","I","J","K","L","M",
                  "N","O","P","Q","R","S","T","U","V","W","X","Y","Z">>
LowerLetters == <<"a","b","c","d","e","f","g","h","i","j","k","l","m",
                  "n","o","p","q","r","s","t","u","v","w","x","y","z">>
Digits == {"0","1","2","3","4","5","6","7","8","9"}

Range(s) == {s[i] : i \in 1..Len(s)}

UpperSet == Range(UpperLetters)
LowerSet == Range(LowerLetters)

\* the lower-case and the upper-case spelling of each letter
LowerOf == [c \in UpperSet |->
               LowerLetters[CHOOSE i \in 1..Len(UpperLetters) : UpperLetters[i] = c]]
UpperOf == [c \in LowerSet |->
               UpperLetters[CHOOSE i \in 1..Len(LowerLetters) : LowerLetters[i] = c]]

\* str.lower() on one character
LowerChar(c) == IF c \in UpperSet THEN LowerOf[c] ELSE c

\* the regular expression class \w
WordChars == UpperSet \cup LowerSet \cup Digits \cup {"_"}
IsWordChar(c) == c \in WordChars

(***************************************************************************)
(* str and re primitives used by the class.                                *)
(***************************************************************************)
\* str.lower()
lower(s) == [i \in 1..Len(s) |-> LowerChar(s[i])]

\* Python slice s[lo:hi] with 0-based bounds, negative bounds counted from
\* the end and both clamped to the string
ClampIndex(n, k) ==
    IF k < 0 THEN (IF n + k < 0 THEN 0 ELSE n + k)
    ELSE IF k > n THEN n ELSE k

Slice(s, lo, hi) ==
    LET a == ClampIndex(Len(s), lo)
        b == ClampIndex(Len(s), hi)
    IN  IF a >= b THEN <<>> ELSE SubSeq(s, a + 1, b)

\* whether sub occurs in s at 0-based offset k
MatchAt(s, sub, k) ==
    /\ k >= 0
    /\ k + Len(sub) <= Len(s)
    /\ \A i \in 1..Len(sub) : s[k + i] = sub[i]

\* str.find(sub, start): lowest 0-based offset >= start, or -1
RECURSIVE FindFrom(_, _, _)
FindFrom(s, sub, k) ==
    IF k + Len(sub) > Len(s) THEN -1
    ELSE IF MatchAt(s, sub, k) THEN k
    ELSE FindFrom(s, sub, k + 1)

find(s, sub, start) == FindFrom(s, sub, ClampIndex(Len(s), start))

\* the "in" operator on strings
Contains(s, sub) == find(s, sub, 0) # -1

\* first position j > i (1-based) closing the tag opened at i: '<.*?>' is
\* non-greedy and '.' does not match a line break; 0 when there is none
TagEnd(s, i) ==
    LET ends == {j \in (i+1)..Len(s) :
                    /\ s[j] = ">"
                    /\ \A k \in (i+1)..(j-1) : s[k] # "\n"}
    IN  IF ends = {} THEN 0 ELSE CHOOSE j \in ends : \A e \in ends : j <= e

\* re.sub('<.*?>', '', s) scanning from 1-based position i
RECURSIVE SubTagsFrom(_, _)
SubTagsFrom(s, i) ==
    IF i > Len(s) THEN <<>>
    ELSE IF s[i] = "<" /\ TagEnd(s, i) # 0
         THEN SubTagsFrom(s, TagEnd(s, i) + 1)
         ELSE <<s[i]>> \o SubTagsFrom(s, i + 1)

\* re.sub('[0-9]+', '', s)
SubDigits(s) == SelectSeq(s, LAMBDA c : c \notin Digits)

\* RegexpTokenizer(r'\w+').tokenize(s): the maximal runs of word characters
RECURSIVE RunEnd(_, _)
RunEnd(s, i) ==
    IF i <= Len(s) /\ IsWordChar(s[i]) THEN RunEnd(s, i + 1) ELSE i

RECURSIVE TokenizeFrom(_, _)
TokenizeFrom(s, i) ==
    IF i > Len(s) THEN <<>>
    ELSE IF IsWordChar(s[i])
         THEN <<SubSeq(s, i, RunEnd(s, i) - 1)>> \o TokenizeFrom(s, RunEnd(s, i))
         ELSE TokenizeFrom(s, i + 1)

tokenize(s) == TokenizeFrom(s, 1)

\* sep.join(parts)
RECURSIVE join(_, _)
join(sep, parts) ==
    IF parts = <<>> THEN <<>>
    ELSE IF Len(parts) = 1 THEN parts[1]
    ELSE parts[1] \o sep \o join(sep, Tail(parts))

\* str.split(): the maximal runs of non-whitespace characters
Whitespace == {" ", "\n", "\t"}

RECURSIVE WordEnd(_, _)
WordEnd(s, i) ==
    IF i <= Len(s) /\ s[i] \notin Whitespace THEN WordEnd(s, i + 1) ELSE i

RECURSIVE SplitFrom(_, _)
SplitFrom(s, i) ==
    IF i > Len(s) THEN <<>>
    ELSE IF s[i] \notin Whitespace
         THEN <<SubSeq(s, i, WordEnd(s, i) - 1)>> \o SplitFrom(s, WordEnd(s, i))
         ELSE SplitFrom(s, i + 1)

split(s) == SplitFrom(s, 1)

\* str.replace(old, new) scanning from 0-based offset k: every
\* non-overlapping occurrence, leftmost first (old is never empty here)
RECURSIVE ReplaceFrom(_, _, _, _)
ReplaceFrom(s, old, new, k) ==
    IF k >= Len(s) THEN <<>>
    ELSE IF MatchAt(s, old, k)
         THEN new \o ReplaceFrom(s, old, new, k + Len(old))
         ELSE <<s[k + 1]>> \o ReplaceFrom(s, old, new, k + 1)

replace(s, old, new) == ReplaceFrom(s, old, new, 0)

(***************************************************************************)
(* UtteranceGenerator.preprocess                                           *)
(***************************************************************************)
\* the same steps with the digit removal moved behind the tokenizer
preprocessDigitsLast(utterance) ==
    SubDigits(join(<<" ">>, tokenize(SubTagsFrom(lower(utterance), 1))))

preprocess(utterance) ==
    LET lowered   == lower(utterance)
        cleantext == SubTagsFrom(lowered, 1)
        rem_num   == SubDigits(cleantext)
    IN  join(<<" ">>, tokenize(rem_num))

(***************************************************************************)
(* UtteranceGenerator.get_phrases: the phrase table, one definition per    *)
(* list of the source, each phrase spelled character by character.         *)
(***************************************************************************)
need ==
    <<
      \* 'do i need'
      <<"d","o"," ","i"," ","n","e","e","d">>,
      \* 'do i need to'
      <<"d","o"," ","i"," ","n","e","e","d"," ","t","o">>,
      \* 'must i'
      <<"m","u","s","t"," ","i">>,
      \* 'must i have'
      <<"m","u","s","t"," ","i"," ","h","a","v","e">>,
      \* 'is it required that i'
      <<"i","s"," ","i","t"," ","r","e","q","u","i","r","e","d"," ","t","h",
        "a","t"," ","i">>,
      \* 'will i need'
      <<"w","i","l","l"," ","i"," ","n","e","e","d">>,
      \* 'will i need to'
      <<"w","i","l","l"," ","i"," ","n","e","e","d"," ","t","o">>>>
signs ==
    <<
      \* 'what are the signs i need'
      <<"w","h","a","t"," ","a","r","e"," ","t","h","e"," ","s","i","g","n",
        "s"," ","i"," ","n","e","e","d">>,
      \* 'what are the signs i need'
      <<"w","h","a","t"," ","a","r","e"," ","t","h","e"," ","s","i","g","n",
        "s"," ","i"," ","n","e","e","d">>,
      \* 'how do i know i need'
      <<"h","o","w"," ","d","o"," ","i"," ","k","n","o","w"," ","i"," ","n",
        "e","e","d">>,
      \* 'when will i need to'
      <<"w","h","e","n"," ","w","i","l","l"," ","i"," ","n","e","e","d"," ",
        "t","o">>,
      \* 'how can i know i need to'
      <<"h","o","w"," ","c","a","n"," ","i"," ","k","n","o","w"," ","i"," ",
        "n","e","e","d"," ","t","o">>,
      \* 'what are the signs you should'
      <<"w","h","a","t"," ","a","r","e"," ","t","h","e"," ","s","i","g","n",
        "s"," ","y","o","u"," ","s","h","o","u","l","d">>,
      \* 'when should i have'
      <<"w","h","e","n"," ","s","h","o","u","l","d"," ","i"," ","h","a","v",
        "e">>,
      \* 'how do i know i should have'
      <<"h","o","w"," ","d","o"," ","i"," ","k","n","o","w"," ","i"," ","s",
        "h","o","u","l","d"," ","h","a","v","e">>>>
timing ==
    <<
      \* 'when will I get'
      <<"w","h","e","n"," ","w","i","l","l"," ","I"," ","g","e","t">>,
      \* 'when can I expect'
      <<"w","h","e","n"," ","c","a","n"," ","I"," ","e","x","p","e","c","t">>,
      \* 'when are'
      <<"w","h","e","n"," ","a","r","e">>,
      \* 'by when should I have'
      <<"b","y"," ","w","h","e","n"," ","s","h","o","u","l","d"," ","I"," ",
        "h","a","v","e">>>>
frequency ==
    <<
      \* 'how often do i need'
      <<"h","o","w"," ","o","f","t","e","n"," ","d","o"," ","i"," ","n","e",
        "e","d">>,
      \* 'what is the timeframe for'
      <<"w","h","a","t"," ","i","s"," ","t","h","e"," ","t","i","m","e","f",
        "r","a","m","e"," ","f","o","r">>>>
scheduling ==
    <<
      \* 'when is my'
      <<"w","h","e","n"," ","i","s"," ","m","y">>,
      \* 'on what date'
      <<"o","n"," ","w","h","a","t"," ","d","a","t","e">>,
      \* 'when do i see'
      <<"w","h","e","n"," ","d","o"," ","i"," ","s","e","e">>>>
insurance ==
    <<
      \* 'is this covered'
      <<"i","s"," ","t","h","i","s"," ","c","o","v","e","r","e","d">>,
      \* 'will my insurance cover'
      <<"w","i","l","l"," ","m","y"," ","i","n","s","u","r","a","n","c","e",
        " ","c","o","v","e","r">>,
      \* 'will insurance cover'
      <<"w","i","l","l"," ","i","n","s","u","r","a","n","c","e"," ","c","o",
        "v","e","r">>,
      \* 'do i need to pay'
      <<"d","o"," ","i"," ","n","e","e","d"," ","t","o"," ","p","a","y">>>>
bill ==
    <<
      \* 'what is my bill'
      <<"w","h","a","t"," ","i","s"," ","m","y"," ","b","i","l","l">>,
      \* 'how much do i owe'
      <<"h","o","w"," ","m","u","c","h"," ","d","o"," ","i"," ","o","w","e">>,
      \* 'how much will i pay for'
      <<"h","o","w"," ","m","u","c","h"," ","w","i","l","l"," ","i"," ","p",
        "a","y"," ","f","o","r">>>>
location ==
    <<
      \* 'where is'
      <<"w","h","e","r","e"," ","i","s">>,
      \* 'where can i find'
      <<"w","h","e","r","e"," ","c","a","n"," ","i"," ","f","i","n","d">>,
      \* 'how can i find'
      <<"h","o","w"," ","c","a","n"," ","i"," ","f","i","n","d">>,
      \* 'i cant find'
      <<"i"," ","c","a","n","t"," ","f","i","n","d">>,
      \* 'what is the location'
      <<"w","h","a","t"," ","i","s"," ","t","h","e"," ","l","o","c","a","t",
        "i","o","n">>,
      \* 'can i have the location'
      <<"c","a","n"," ","i"," ","h","a","v","e"," ","t","h","e"," ","l","o",
        "c","a","t","i","o","n">>>>
ability ==
    <<
      \* 'what can i'
      <<"w","h","a","t"," ","c","a","n"," ","i">>,
      \* 'is there anything i can'
      <<"i","s"," ","t","h","e","r","e"," ","a","n","y","t","h","i","n","g",
        " ","i"," ","c","a","n">>,
      \* 'can i'
      <<"c","a","n"," ","i">>>>
preparation ==
    <<
      \* 'what do i need'
      <<"w","h","a","t"," ","d","o"," ","i"," ","n","e","e","d">>,
      \* 'how do i prepare'
      <<"h","o","w"," ","d","o"," ","i"," ","p","r","e","p","a","r","e">>,
      \* 'how can i get ready for'
      <<"h","o","w"," ","c","a","n"," ","i"," ","g","e","t"," ","r","e","a",
        "d","y"," ","f","o","r">>,
      \* 'what should i bring'
      <<"w","h","a","t"," ","s","h","o","u","l","d"," ","i"," ","b","r","i",
        "n","g">>>>
forgetfulness ==
    <<
      \* 'what if i forgot'
      <<"w","h","a","t"," ","i","f"," ","i"," ","f","o","r","g","o","t">>,
      \* 'i forgot to'
      <<"i"," ","f","o","r","g","o","t"," ","t","o">>,
      \* 'is it ok if i forgot'
      <<"i","s"," ","i","t"," ","o","k"," ","i","f"," ","i"," ","f","o","r",
        "g","o","t">>>>
explanation ==
    <<
      \* 'what is'
      <<"w","h","a","t"," ","i","s">>,
      \* 'tell me what is'
      <<"t","e","l","l"," ","m","e"," ","w","h","a","t"," ","i","s">>,
      \* 'describe'
      <<"d","e","s","c","r","i","b","e">>,
      \* 'i want to understand'
      <<"i"," ","w","a","n","t"," ","t","o"," ","u","n","d","e","r","s","t",
        "a","n","d">>>>
get_phrases ==
    <<need, signs, timing, bill, frequency, scheduling, insurance, location,
      ability, preparation, forgetfulness, explanation>>


(***************************************************************************)
(* Values shared by the methods.  A call that can raise returns a record   *)
(* whose field exc names the exception ("" when it returned normally).     *)
(***************************************************************************)
\* Python's None for an optional object; a present object o is <<o>>
None == <<>>

\* self._posmap (line 39)
posmap ==
    [t \in {"VERB", "NOUN", "PRON", "PROPN", "ADJ", "ADV"} |->
        CASE t = "VERB" -> "v"
          [] t \in {"NOUN", "PRON", "PROPN"} -> "n"
          [] t = "ADJ" -> "a"
          [] t = "ADV" -> "r"]

\* concatenation of a list of lists
RECURSIVE Flatten(_)
Flatten(lists) ==
    IF lists = <<>> THEN <<>> ELSE Head(lists) \o Flatten(Tail(lists))

\* list(set(l)): the distinct elements of l.  The order in which a set is
\* iterated is not specified; here it is the order of first occurrence.
\* Nothing in the class reads that order, and generate() shuffles it.
RECURSIVE ListOfSet(_)
ListOfSet(l) ==
    IF l = <<>> THEN <<>>
    ELSE LET front == ListOfSet(SubSeq(l, 1, Len(l) - 1))
             last  == l[Len(l)]
         IN  IF last \in Range(front) THEN front ELSE Append(front, last)

(***************************************************************************)
(* UtteranceGenerator.get_pos                                              *)
(*   tag is what nlp(self._utterance) answers: for each token the tagger   *)
(*   produces, its pos_; a word the tagger did not produce as a token is   *)
(*   not in its domain, and the loop then falls through, returning None.   *)
(***************************************************************************)
get_pos(self_utterance, tag, word) ==
    IF self_utterance = <<>> \/ word = <<>>
    THEN [exc |-> "ValueError", val |-> "None"]
    ELSE IF ~Contains(self_utterance, preprocess(word))
    THEN [exc |-> "ValueError", val |-> "None"]
    ELSE [exc |-> "",
          val |-> IF word \in DOMAIN tag THEN tag[word] ELSE "None"]

(***************************************************************************)
(* UtteranceGenerator.get_similarities                                     *)
(*   An embedding is a function from tokens to vectors; a token outside    *)
(*   its domain makes get_vector raise.  A vector is a tuple of integers   *)
(*   and np.empty(0) is the empty tuple.  A similarity is kept exact as    *)
(*   <<dot, |v1|^2, |v2|^2>>, standing for dot / sqrt(|v1|^2 * |v2|^2);    *)
(*   a zero norm makes the quotient NaN.                                   *)
(***************************************************************************)
RECURSIVE DotFrom(_, _, _)
DotFrom(v1, v2, i) ==
    IF i > Len(v1) THEN 0 ELSE v1[i] * v2[i] + DotFrom(v1, v2, i + 1)

Dot(v1, v2) == DotFrom(v1, v2, 1)

\* the float 1.0
One == <<1, 1, 1>>

IsNaN(sim) == sim[2] * sim[3] = 0

\* similarity >= 0.70; every comparison with NaN is false
AtLeast70(sim) ==
    /\ ~IsNaN(sim)
    /\ sim[1] >= 0
    /\ 100 * sim[1] * sim[1] >= 49 * sim[2] * sim[3]

\* cosinesim (lines 105-106): np.dot raises ValueError when the shapes differ
cosinesim(v1, v2) ==
    IF Len(v1) # Len(v2)
    THEN [exc |-> "ValueError", val |-> One]
    ELSE [exc |-> "", val |-> <<Dot(v1, v2), Dot(v1, v1), Dot(v2, v2)>>]

\* embed (lines 107-114): the bare except turns a failed lookup into np.empty(0)
embed(vector, m) == IF vector \in DOMAIN m THEN m[vector] ELSE <<>>

\* ndarray.any()
any(vec) == \E i \in 1..Len(vec) : vec[i] # 0

\* a dict as the list of its <<key, value>> items in insertion order
DictKeys(d) == [i \in 1..Len(d) |-> d[i][1]]
DictHas(d, k) == \E i \in 1..Len(d) : d[i][1] = k
DictSet(d, k, v) ==
    IF DictHas(d, k)
    THEN [i \in 1..Len(d) |-> IF d[i][1] = k THEN <<k, v>> ELSE d[i]]
    ELSE Append(d, <<k, v>>)

\* the loop of lines 119-123 from the i-th synonym on
RECURSIVE ScoreFrom(_, _, _, _, _)
ScoreFrom(ref, synonyms, m, i, sims) ==
    IF i > Len(synonyms) THEN [exc |-> "", val |-> sims]
    ELSE LET s   == synonyms[i]
             vec == embed(s, m)
         IN  IF any(vec)
             THEN LET sim == cosinesim(ref, vec)
                  IN  IF sim.exc # "" THEN [exc |-> sim.exc, val |-> sims]
                      ELSE ScoreFrom(ref, synonyms, m, i + 1,
                                     DictSet(sims, s, sim.val))
             ELSE ScoreFrom(ref, synonyms, m, i + 1, sims)

get_similarities(word, synonyms, m) ==
    ScoreFrom(embed(word, m), synonyms, m, 1, <<<<word, One>>>>)

(***************************************************************************)
(* UtteranceGenerator.get_synonyms                                         *)
(*   wn[word] is the set built on lines 146-149 from wn.synsets(word,      *)
(*   pos=...), as the list of its elements in the order it is iterated.    *)
(*   WordNet spells a lemma of several words with '_' between them, so a   *)
(*   lemma name holds no white space.                                      *)
(*   Returns [exc, none, val]: none tells None from a list.                *)
(***************************************************************************)
lemma_names(wn, word, pos) ==
    IF word \in DOMAIN wn /\ Len(word) > 1 THEN wn[word] ELSE <<>>

get_synonyms(self_utterance, self_model, tag, wn, word) ==
    LET pos == get_pos(self_utterance, tag, preprocess(word))
    IN  IF pos.exc # "" THEN [exc |-> pos.exc, none |-> TRUE, val |-> <<>>]
        ELSE IF pos.val \notin {"VERB", "NOUN", "PRON", "PROPN", "ADJ", "ADV"}
        THEN [exc |-> "", none |-> TRUE, val |-> <<>>]
        ELSE LET synonyms == lemma_names(wn, word, posmap[pos.val])
             IN  IF self_model = None
                 THEN [exc |-> "", none |-> FALSE, val |-> synonyms]
                 ELSE LET similarities ==
                              get_similarities(word, synonyms, self_model[1])
                          kept == SelectSeq(similarities.val,
                                            LAMBDA item : AtLeast70(item[2]))
                      IN  IF similarities.exc # ""
                          THEN [exc |-> similarities.exc, none |-> TRUE,
                                val |-> <<>>]
                          ELSE [exc |-> "", none |-> FALSE,
                                val |-> DictKeys(kept)]

(***************************************************************************)
(* UtteranceGenerator.map_synonyms                                         *)
(***************************************************************************)
\* the filter of line 174 with the synonym compared as it is spelled
KeepSynonymUnnormalised(synonym, word) ==
    /\ "_" \notin Range(synonym)
    /\ synonym # word

\* the filter of line 174
KeepSynonym(synonym, word) ==
    /\ "_" \notin Range(synonym)
    /\ preprocess(synonym) # word

\* the loop of lines 169-176 from the i-th word on; d is a function from
\* words to lists
RECURSIVE MapFrom(_, _, _, _, _, _, _)
MapFrom(self_utterance, self_model, tag, wn, words, i, d) ==
    IF i > Len(words) THEN [exc |-> "", val |-> d]
    ELSE LET word     == words[i]
             got      == get_synonyms(self_utterance, self_model, tag, wn, word)
             synonyms == IF got.none \/ got.val = <<>> THEN <<>>
                         ELSE SelectSeq(got.val,
                                        LAMBDA s : KeepSynonym(s, word))
         IN  IF got.exc # "" THEN [exc |-> got.exc, val |-> d]
             ELSE MapFrom(self_utterance, self_model, tag, wn, words, i + 1,
                          IF synonyms # <<>>
                          THEN [w \in DOMAIN d \cup {word} |->
                                   IF w = word THEN synonyms ELSE d[w]]
                          ELSE d)

map_synonyms(self_utterance, self_model, tag, wn) ==
    MapFrom(self_utterance, self_model, tag, wn, split(self_utterance), 1, <<>>)

(***************************************************************************)
(* UtteranceGenerator.add_synonyms                                         *)
(*   Returns [genlist, located, ret]: the list before list(set(..)), the   *)
(*   offset find() returned at each position, and the list returned.       *)
(***************************************************************************)
\* lines 190-194 for one word
Candidates(d, word) ==
    IF word \in DOMAIN d THEN <<word>> \o d[word] ELSE <<word>>

\* the same loop with every search starting at the beginning of the utterance
RECURSIVE SubstituteFromStart(_, _, _, _, _)
SubstituteFromStart(u, tokens, i, prev, acc) ==
    IF i > Len(tokens) THEN acc
    ELSE LET word  == tokens[i][1]
             slist == tokens[i]
             start == find(u, word, 0)
             end   == start + Len(word)
             gens  == [j \in 1..Len(slist) |->
                          Slice(u, 0, start) \o slist[j] \o Slice(u, end, Len(u))]
         IN  SubstituteFromStart(u, tokens, i + 1, end,
                                 [genlist |-> acc.genlist \o gens,
                                  located |-> Append(acc.located, start)])

\* the loop of lines 197-207 from position i on with cursor prev
RECURSIVE SubstituteFrom(_, _, _, _, _)
SubstituteFrom(u, tokens, i, prev, acc) ==
    IF i > Len(tokens) THEN acc
    ELSE LET word  == tokens[i][1]
             slist == tokens[i]
             start == find(u, word, prev)
             end   == start + Len(word)
             gens  == [j \in 1..Len(slist) |->
                          Slice(u, 0, start) \o slist[j] \o Slice(u, end, Len(u))]
         IN  SubstituteFrom(u, tokens, i + 1, end,
                            [genlist |-> acc.genlist \o gens,
                             located |-> Append(acc.located, start)])

\* the candidates of a mapped word taken without the word itself
add_synonymsWithoutOriginal(u, d) ==
    LET words  == split(u)
        tokens == [i \in 1..Len(words) |->
                      IF words[i] \in DOMAIN d THEN d[words[i]] ELSE <<words[i]>>]
        done   == SubstituteFrom(u, tokens, 1, 0,
                                 [genlist |-> <<>>, located |-> <<>>])
    IN  [genlist |-> done.genlist, located |-> done.located,
         ret |-> ListOfSet(done.genlist)]

\* the list returned as it was built
add_synonymsNoSet(u, d) ==
    LET words  == split(u)
        tokens == [i \in 1..Len(words) |-> Candidates(d, words[i])]
        done   == SubstituteFrom(u, tokens, 1, 0,
                                 [genlist |-> <<>>, located |-> <<>>])
    IN  [genlist |-> done.genlist, located |-> done.located,
         ret |-> done.genlist]

add_synonyms(u, d) ==
    LET words  == split(u)
        tokens == [i \in 1..Len(words) |-> Candidates(d, words[i])]
        done   == SubstituteFrom(u, tokens, 1, 0,
                                 [genlist |-> <<>>, located |-> <<>>])
    IN  [genlist |-> done.genlist, located |-> done.located,
         ret |-> ListOfSet(done.genlist)]

(***************************************************************************)
(* UtteranceGenerator.add_phrases                                          *)
(***************************************************************************)
\* lines 226-229 with the loop running over the whole list
PhraseVariantsAll(u, plist, phrase) ==
    LET idx == SelectSeq([i \in 1..Len(plist) |-> i],
                         LAMBDA i : plist[i] # phrase)
    IN  [k \in 1..Len(idx) |-> replace(u, phrase, plist[idx[k]])]

\* lines 226-229: range(len(plist)-1) leaves the last index out
PhraseVariants(u, plist, phrase) ==
    LET idx == SelectSeq([i \in 1..(Len(plist) - 1) |-> i],
                         LAMBDA i : plist[i] # phrase)
    IN  [k \in 1..Len(idx) |-> replace(u, phrase, plist[idx[k]])]

add_phrases(u, bank) ==
    IF bank = <<>> THEN <<>>
    ELSE Flatten([c \in 1..Len(bank) |->
             Flatten([k \in 1..Len(bank[c]) |->
                 IF Contains(u, bank[c][k])
                 THEN PhraseVariants(u, bank[c], bank[c][k])
                 ELSE <<>>])])

(***************************************************************************)
(* UtteranceGenerator.generate                                             *)
(***************************************************************************)
\* the combined list with its duplicates removed
extendedDistinct(u, d, bank) ==
    ListOfSet(add_synonyms(u, d).ret \o add_phrases(u, bank))

\* lines 241-242: the list before it is shuffled
extended(u, d, bank) == add_synonyms(u, d).ret \o add_phrases(u, bank)

\* how often x is in the list l
CountIn(l, x) == Cardinality({i \in 1..Len(l) : l[i] = x})

\* the multiset of the elements of a list
BagOf(l) == [x \in Range(l) |-> CountIn(l, x)]

\* shuffle(generated): random.shuffle walks the list exchanging each
\* position with a random one; the lists it can leave after at most k
\* exchanges that move something
Exchange(l, i, j) ==
    [k \in 1..Len(l) |-> IF k = i THEN l[j] ELSE IF k = j THEN l[i] ELSE l[k]]

RECURSIVE shuffle(_, _)
shuffle(generated, k) ==
    IF k = 0 THEN {generated}
    ELSE LET fewer == shuffle(generated, k - 1)
             pairs == {ij \in (1..Len(generated)) \X (1..Len(generated)) :
                          ij[1] < ij[2]}
         IN  fewer \cup {Exchange(l, ij[1], ij[2]) : l \in fewer, ij \in pairs}

(***************************************************************************)
(* State.                                                                  *)
(***************************************************************************)
VARIABLES
    raw,          \* the utterance given to the constructor
    model,        \* the model given to the constructor: None or <<embedding>>
    wikimodel,    \* the module-level default embedding (line 28)
    tagger,       \* what nlp() answers: word -> part-of-speech tag
    wordnet,      \* what wn.synsets(..).lemma_names() yield: word -> lemma names
    phase,        \* "new", "built" (constructor returned), "raised" (it threw)
    utterance,    \* self._utterance
    selfmodel,    \* self._model
    phrasebank,   \* self._phrasebank
    synonymsdict, \* self._synonymsdict: word -> list of synonyms
    asbuilt,      \* the three fields above as the constructor left them
    arg,          \* argument of the last method call
    result,       \* value the last method call returned
    ncalls,       \* number of method calls made so far
    located,      \* the offsets find() returned in the last add_synonyms()
    firstbag      \* the multiset the first generate() returned

vars == <<raw, model, wikimodel, tagger, wordnet, phase, utterance, selfmodel,
          phrasebank, synonymsdict, asbuilt, arg, result, ncalls, located,
          firstbag>>

\* all strings over an alphabet up to a length
Strings(alphabet, maxlen) == UNION {[1..n -> alphabet] : n \in 0..maxlen}

\* duplicate-free sequences over a set up to a length
Injective(s) == \A i, j \in 1..Len(s) : s[i] = s[j] => i = j
DistinctSeqs(S, maxlen) == {s \in Strings(S, maxlen) : Injective(s)}

(***************************************************************************)
(* Specification SpecNorm: preprocess() called on an arbitrary string and  *)
(* then on its own result.                                                 *)
(***************************************************************************)
MaxNormLen == 4
NormAlphabet == {"a", "B", "1", "<", ">", " ", "_", "\n"}

NoObject ==
    /\ raw = <<>> /\ model = None /\ wikimodel = <<>>
    /\ tagger = <<>> /\ wordnet = <<>>
    /\ phase = "new" /\ utterance = <<>> /\ selfmodel = None
    /\ phrasebank = <<>> /\ synonymsdict = <<>> /\ asbuilt = <<>>
    /\ located = <<>> /\ firstbag = EmptyBag

InitNorm ==
    /\ NoObject
    /\ arg \in Strings(NormAlphabet, MaxNormLen)
    /\ result = <<>>
    /\ ncalls = 0

\* preprocess(arg), then preprocess(the string it returned)
Preprocess ==
    /\ ncalls < 2
    /\ arg' = IF ncalls = 0 THEN arg ELSE result
    /\ result' = preprocess(arg')
    /\ ncalls' = ncalls + 1
    /\ UNCHANGED <<raw, model, wikimodel, tagger, wordnet, phase, utterance,
                   selfmodel, phrasebank, synonymsdict, asbuilt, located,
                   firstbag>>

SpecNorm == InitNorm /\ [][Preprocess]_vars

\* C7: preprocess is idempotent, preprocess(preprocess(x)) = preprocess(x)
\* for every string x, and the empty string is normalised to the empty
\* string.
C7_Idempotent ==
    /\ ncalls = 2 => result = arg
    /\ (ncalls >= 1 /\ arg = <<>>) => result = <<>>

\* preprocess has been applied to a string it returned, one of two words
C7_Witness ==
    /\ ncalls = 2
    /\ arg = <<"a", " ", "a">>
    /\ result = arg

\* C8: every space-separated token of a string preprocess() returns has at
\* least two characters.
C8_TokensAtLeastTwo ==
    ncalls >= 1 => \A i \in 1..Len(split(result)) : Len(split(result)[i]) >= 2

(***************************************************************************)
(* UtteranceGenerator.__init__                                             *)
(*   Runs the whole constructor.  When map_synonyms raises, the exception  *)
(*   leaves the constructor and no object is returned: phase is "raised"   *)
(*   and _synonymsdict was never assigned.  Line 40 tests the truth value  *)
(*   of model: None is false, an embedding object is taken to be true, as  *)
(*   is the default wikimodel.                                             *)
(***************************************************************************)
Construct ==
    /\ phase = "new"
    /\ LET u == preprocess(raw)
           m == IF model # None THEN model ELSE <<wikimodel>>
           d == map_synonyms(u, m, tagger, wordnet)
       IN  /\ utterance' = u
           /\ selfmodel' = m
           /\ phrasebank' = get_phrases
           /\ synonymsdict' = IF d.exc = "" THEN d.val ELSE <<>>
           /\ phase' = IF d.exc = "" THEN "built" ELSE "raised"
           /\ asbuilt' = <<u, get_phrases, synonymsdict'>>
    /\ UNCHANGED <<raw, model, wikimodel, tagger, wordnet, arg, result,
                   ncalls, located, firstbag>>

NoCall ==
    /\ phase = "new" /\ utterance = <<>> /\ selfmodel = None
    /\ phrasebank = <<>> /\ synonymsdict = <<>> /\ asbuilt = <<>>
    /\ arg = <<>> /\ result = <<>> /\ ncalls = 0
    /\ located = <<>> /\ firstbag = EmptyBag

\* the words of the utterance the constructor will store
WordsOf(r) == Range(split(preprocess(r)))

\* str.capitalize() of a lower-case word
Capitalised(w) ==
    [i \in 1..Len(w) |-> IF i = 1 /\ w[1] \in LowerSet THEN UpperOf[w[1]] ELSE w[i]]

W_will == <<"w","i","l","l">>

(***************************************************************************)
(* Specification SpecBuild: the constructor on an utterance that repeats   *)
(* one word, against every tagger answer, every WordNet answer drawn from  *)
(* the word itself, its capitalised spelling, a multi-word lemma and an    *)
(* unrelated lemma, and every embedding of the tokens involved.            *)
(***************************************************************************)
MaxRepeat == 2
MaxLemmas == 2
BuildVocab == {<<"D","o","2">>, <<"i">>}
BuildTags == {"VERB", "DET"}
BuildVectors == {<<0, 0>>, <<1, 0>>, <<9, 10>>}

LemmaPool(w) == {w, Capitalised(w), w \o <<"_","u","p">>, W_will}

\* the words for which line 147 queries WordNet, given the tagger's answers
Queried(r, tag) == {w \in WordsOf(r) : tag[w] \in DOMAIN posmap}

Embeddings(tokens, vectors) == UNION {[D -> vectors] : D \in SUBSET tokens}

InitBuild ==
    /\ NoCall
    /\ raw \in {join(<<" ">>, [i \in 1..k |-> w]) :
                   w \in BuildVocab, k \in 0..MaxRepeat}
    /\ tagger \in [WordsOf(raw) -> BuildTags]
    /\ wordnet \in {wn \in [Queried(raw, tagger) ->
                               DistinctSeqs(UNION {LemmaPool(w) : w \in WordsOf(raw)},
                                            MaxLemmas)] :
                       \A w \in DOMAIN wn : Range(wn[w]) \subseteq LemmaPool(w)}
    /\ \E E \in Embeddings(WordsOf(raw) \cup UNION {Range(wordnet[w]) : w \in DOMAIN wordnet},
                           BuildVectors) :
          \/ model = <<E>> /\ wikimodel = <<>>
          \/ model = None /\ wikimodel = E

SpecBuild == InitBuild /\ [][Construct]_vars

\* the similarity of two tokens under an embedding, None when either has
\* no usable vector
Similarity(E, w, c) ==
    IF w \in DOMAIN E /\ c \in DOMAIN E /\ any(E[c])
    THEN <<<<Dot(E[w], E[c]), Dot(E[w], E[w]), Dot(E[c], E[c])>>>>
    ELSE None

\* C4: after construction every entry word -> candidates of the synonym map
\* has a non-empty list, and every candidate has no '_', normalises to a
\* string other than word and, a model being configured, has cosine
\* similarity at least 0.70 against word.
C4_SynonymMapInvariant ==
    phase = "built" =>
        \A w \in DOMAIN synonymsdict :
            /\ w \in WordsOf(raw)
            /\ synonymsdict[w] # <<>>
            /\ \A c \in Range(synonymsdict[w]) :
                  /\ "_" \notin Range(c)
                  /\ preprocess(c) # w
                  /\ selfmodel # None =>
                        /\ Similarity(selfmodel[1], w, c) # None
                        /\ AtLeast70(Similarity(selfmodel[1], w, c)[1])

\* a map was built with an entry, from a WordNet answer of which the
\* filters dropped a lemma
C4_Witness ==
    /\ phase = "built"
    /\ \E w \in DOMAIN synonymsdict :
          /\ synonymsdict[w] = <<W_will>>
          /\ Len(wordnet[w]) = 2

\* C5: constructed with no model, the similarity filter is bypassed: every
\* single-token lemma of a word with a supported tag that normalises to
\* something else than the word is in the synonym map, whatever its
\* similarity.
C5_NoModelNoFilter ==
    (phase = "built" /\ model = None) =>
        \A w \in WordsOf(raw) :
            tagger[w] \in DOMAIN posmap =>
                \A c \in Range(lemma_names(wordnet, w, posmap[tagger[w]])) :
                    ("_" \notin Range(c) /\ preprocess(c) # w) =>
                        /\ w \in DOMAIN synonymsdict
                        /\ c \in Range(synonymsdict[w])

\* C9: a failed vector lookup is never an error: the constructor returns,
\* and a candidate whose lookup failed is not in the synonym map.
C9_LookupMissIsNoError ==
    phase # "new" =>
        /\ phase = "built"
        /\ \A w \in DOMAIN synonymsdict :
              \A c \in Range(synonymsdict[w]) : c \in DOMAIN selfmodel[1]

(***************************************************************************)
(* Calls of add_synonyms() and add_phrases() on a constructed object.      *)
(***************************************************************************)
AddSynonyms ==
    /\ phase = "built"
    /\ ncalls = 0
    /\ LET out == add_synonyms(utterance, synonymsdict)
       IN  /\ result' = out.ret
           /\ located' = out.located
    /\ ncalls' = 1
    /\ UNCHANGED <<raw, model, wikimodel, tagger, wordnet, phase, utterance,
                   selfmodel, phrasebank, synonymsdict, asbuilt, arg, firstbag>>

AddPhrases ==
    /\ phase = "built"
    /\ ncalls = 0
    /\ result' = add_phrases(utterance, phrasebank)
    /\ ncalls' = 1
    /\ UNCHANGED <<raw, model, wikimodel, tagger, wordnet, phase, utterance,
                   selfmodel, phrasebank, synonymsdict, asbuilt, arg, located,
                   firstbag>>

(***************************************************************************)
(* Specification SpecWords: the constructor and add_synonyms() on every    *)
(* utterance of up to MaxWords words of a vocabulary in which one word is  *)
(* part of another, each word tagged as a verb, WordNet answering with any *)
(* list over a pool that holds a word of the vocabulary, and an embedding  *)
(* that gives every token the same vector (so every lemma passes 0.70).    *)
(***************************************************************************)
MaxWords == 3
MaxSyn == 2
W_do == <<"d","o">>
W_i == <<"i">>
W_undo == <<"u","n","d","o">>
WordsVocab == {W_do, W_i, W_undo}
SynPool == {W_will, W_do}

InitWords ==
    /\ NoCall
    /\ raw \in {join(<<" ">>, ws) : ws \in Strings(WordsVocab, MaxWords)}
    /\ tagger = [w \in WordsOf(raw) |-> "VERB"]
    /\ wordnet \in [WordsOf(raw) -> DistinctSeqs(SynPool, MaxSyn)]
    /\ model = <<[t \in WordsOf(raw) \cup SynPool |-> <<1, 0>>]>>
    /\ wikimodel = <<>>

SpecWords == InitWords /\ [][Construct \/ AddSynonyms]_vars

\* 0-based offset of the i-th token of a single-space joined utterance
RECURSIVE TokenOffset(_, _)
TokenOffset(words, i) ==
    IF i = 1 THEN 0 ELSE TokenOffset(words, i - 1) + Len(words[i - 1]) + 1

\* the number of candidates the map holds for the words of the utterance,
\* position by position
RECURSIVE MappedCount(_, _)
MappedCount(d, words) ==
    IF words = <<>> THEN 0
    ELSE (IF Head(words) \in DOMAIN d THEN Len(d[Head(words)]) ELSE 0)
         + MappedCount(d, Tail(words))

\* the utterance with its i-th token replaced by c and nothing else changed
WithToken(words, i, c) ==
    join(<<" ">>, [k \in 1..Len(words) |-> IF k = i THEN c ELSE words[k]])

\* C10: for a non-empty utterance, find() locates at position i the span of
\* the i-th token, and add_synonyms() returns, without duplicates, exactly
\* the strings that replace one token t_i by a c of [t_i] + map[t_i]:
\* 1 + the sum over the positions of len(map[t_i]) strings.
C10_CursorLocatesTokens ==
    (phase = "built" /\ ncalls = 1 /\ utterance # <<>>) =>
        LET words == split(utterance)
        IN  /\ Len(located) = Len(words)
            /\ \A i \in 1..Len(words) : located[i] = TokenOffset(words, i)
            /\ Range(result) =
                  UNION {{WithToken(words, i, c) :
                             c \in Range(Candidates(synonymsdict, words[i]))} :
                         i \in 1..Len(words)}
            /\ Injective(result)
            /\ Len(result) = 1 + MappedCount(synonymsdict, words)

C10_Witness ==
    /\ phase = "built" /\ ncalls = 1
    /\ utterance = W_undo \o <<" ">> \o W_do \o <<" ">> \o W_do
    /\ W_do \in DOMAIN synonymsdict
    /\ W_undo \in DOMAIN synonymsdict
    /\ Len(result) = 5

\* C6 as stated: whatever the utterance and the synonym map, the list
\* add_synonyms() returns holds the utterance unchanged.
C6_AlwaysHoldsOriginal ==
    (phase = "built" /\ ncalls = 1) => utterance \in Range(result)

\* C6 amended: for an utterance that is not empty, the list add_synonyms()
\* returns holds the utterance unchanged; for the empty utterance it is the
\* empty list.
C6_HoldsOriginalWhenNonEmpty ==
    (phase = "built" /\ ncalls = 1) =>
        IF utterance # <<>> THEN utterance \in Range(result)
        ELSE result = <<>>

C6_Witness ==
    /\ phase = "built" /\ ncalls = 1
    /\ utterance # <<>>
    /\ \A w \in WordsOf(utterance) : w \in DOMAIN synonymsdict
    /\ Len(result) > 1
    /\ utterance \in Range(result)

(***************************************************************************)
(* Specification SpecPhrase: the constructor and add_phrases() on every    *)
(* utterance made of a phrase of the table (or none), once or twice, after *)
(* nothing or a letter glued to it, and before up to MaxSuffix words.  The *)
(* tagger answers DET for every word, so that the synonym map is empty.    *)
(***************************************************************************)
W_need == <<"n","e","e","d">>
W_a == <<"a">>
W_referral == <<"r","e","f","e","r","r","a","l">>
W_to == <<"t","o">>
W_must == <<"m","u","s","t">>
W_have == <<"h","a","v","e">>
W_is == <<"i","s">>
W_it == <<"i","t">>
W_required == <<"r","e","q","u","i","r","e","d">>
W_that == <<"t","h","a","t">>
W_what == <<"w","h","a","t">>
W_can == <<"c","a","n">>
W_go == <<"g","o">>

Sentence(words) == join(<<" ">>, words)

MaxSuffix == 2
PhrasePrefixes == {<<>>, <<"s">>}
SuffixVocab == {W_a, W_referral}
TablePhrases == UNION {Range(get_phrases[c]) : c \in 1..Len(get_phrases)}

InitPhrase ==
    /\ NoCall
    /\ raw \in {pre \o ph \o (IF twice THEN <<" ">> \o ph ELSE <<>>)
                    \o Flatten([i \in 1..Len(suf) |-> <<" ">> \o suf[i]]) :
                   pre \in PhrasePrefixes,
                   ph \in TablePhrases \cup {<<>>},
                   twice \in BOOLEAN,
                   suf \in Strings(SuffixVocab, MaxSuffix)}
    /\ tagger = [w \in WordsOf(raw) |-> "DET"]
    /\ wordnet = <<>>
    /\ model = None
    /\ wikimodel = <<>>

SpecPhrase == InitPhrase /\ [][Construct \/ AddPhrases]_vars

\* s.split(old): the pieces of s between the occurrences of old
RECURSIVE SplitOn(_, _)
SplitOn(s, old) ==
    LET k == find(s, old, 0)
    IN  IF k = -1 THEN <<s>>
        ELSE <<Slice(s, 0, k)>> \o SplitOn(Slice(s, k + Len(old), Len(s)), old)

\* s with all occurrences of old replaced by new
AllReplaced(s, old, new) == join(new, SplitOn(s, old))

\* the (class, matched entry, replacement entry) triples of the table for an
\* utterance: the matched entry occurs in it, the replacement entry is not
\* the last of its class and differs from the matched one
PhraseTriples(u, bank) ==
    LET matched == {ck \in UNION {{<<c, k>> : k \in 1..Len(bank[c])} :
                                     c \in 1..Len(bank)} :
                       Contains(u, bank[ck[1]][ck[2]])}
    IN  UNION {{<<ck[1], ck[2], i>> :
                   i \in {j \in 1..(Len(bank[ck[1]]) - 1) :
                             bank[ck[1]][j] # bank[ck[1]][ck[2]]}} :
               ck \in matched}

U_referral == Sentence(<<W_do, W_i, W_need, W_a, W_referral>>)

\* C3: add_phrases() appends, for every class and every entry of it that
\* occurs in the utterance, one string per entry of the class but the last
\* that differs from the matched one, the utterance with all occurrences of
\* the matched entry replaced by it, and nothing else; for "do i need a
\* referral" these are the five variants of the 'need' class and none uses
\* "will i need to".
C3_PhraseVariants ==
    (phase = "built" /\ ncalls = 1) =>
        /\ LET triples == PhraseTriples(utterance, phrasebank)
               variant == [t \in triples |->
                              AllReplaced(utterance, phrasebank[t[1]][t[2]],
                                          phrasebank[t[1]][t[3]])]
           IN  /\ Len(result) = Cardinality(triples)
               /\ \A t \in triples :
                     CountIn(result, variant[t]) =
                         Cardinality({r \in triples : variant[r] = variant[t]})
        /\ utterance = U_referral =>
              /\ Len(result) = 5
              /\ Range(result) =
                    {Sentence(<<W_do, W_i, W_need, W_to, W_a, W_referral>>),
                     Sentence(<<W_must, W_i, W_a, W_referral>>),
                     Sentence(<<W_must, W_i, W_have, W_a, W_referral>>),
                     Sentence(<<W_is, W_it, W_required, W_that, W_i, W_a, W_referral>>),
                     Sentence(<<W_will, W_i, W_need, W_a, W_referral>>)}
              /\ Sentence(<<W_will, W_i, W_need, W_to, W_a, W_referral>>)
                    \notin Range(result)

C3_Witness ==
    /\ phase = "built" /\ ncalls = 1
    /\ utterance = U_referral
    /\ Len(result) = 5

(***************************************************************************)
(* UtteranceGenerator.generate as a call on a constructed object.          *)
(***************************************************************************)
MaxCalls == 2
MaxSwaps == 1

Generate ==
    /\ phase = "built"
    /\ ncalls < MaxCalls
    /\ result' \in shuffle(extended(utterance, synonymsdict, phrasebank), MaxSwaps)
    /\ ncalls' = ncalls + 1
    /\ firstbag' = IF ncalls = 0 THEN BagOf(result') ELSE firstbag
    /\ UNCHANGED <<raw, model, wikimodel, tagger, wordnet, phase, utterance,
                   selfmodel, phrasebank, synonymsdict, asbuilt, arg, located>>

(***************************************************************************)
(* Specification SpecGen: the constructor and then generate(), up to       *)
(* MaxCalls times with up to MaxSwaps exchanges in each shuffle, on        *)
(* utterances with and without a phrase of the table, every word tagged    *)
(* as a verb, WordNet answering for 'do' and 'go' with nothing or with     *)
(* 'will', and every token having the same vector.                         *)
(***************************************************************************)
GenUtterances ==
    {<<>>,
     <<"<","b",">"," ","4","2">>,
     W_go,
     Sentence(<<<<"G","o">>, W_go>>),
     Sentence(<<W_can, W_i, W_go>>),
     Sentence(<<W_must, W_i, W_go>>),
     Sentence(<<W_do, W_i, W_need>>)}
GenSynonyms == {<<>>, <<W_will>>}

InitGen ==
    /\ NoCall
    /\ raw \in GenUtterances
    /\ tagger = [w \in WordsOf(raw) |-> "VERB"]
    /\ wordnet \in [WordsOf(raw) \cap {W_do, W_go} -> GenSynonyms]
    /\ model = <<[t \in WordsOf(raw) \cup {W_will} |-> <<1, 0>>]>>
    /\ wikimodel = <<>>

SpecGen == InitGen /\ [][Construct \/ Generate]_vars

\* whether some entry of the phrase table occurs in u
SomePhraseIn(u, bank) ==
    \E c \in 1..Len(bank) : \E k \in 1..Len(bank[c]) : Contains(u, bank[c][k])

\* C1 as stated: for every utterance, the empty one included, whose synonym
\* map is empty and in which no entry of the phrase table occurs,
\* generate() returns the list of one entry, the utterance.
C1_OneEntryAlways ==
    (phase = "built" /\ ncalls >= 1 /\ DOMAIN synonymsdict = {}
        /\ ~SomePhraseIn(utterance, phrasebank))
    => result = <<utterance>>

\* C1 amended: for every utterance that is not empty, whose synonym map is
\* empty and in which no entry of the phrase table occurs, generate()
\* returns the list of one entry, the utterance; for the empty utterance it
\* returns the empty list.
C1_OneEntryWhenNonEmpty ==
    (phase = "built" /\ ncalls >= 1 /\ DOMAIN synonymsdict = {}
        /\ ~SomePhraseIn(utterance, phrasebank))
    => IF utterance # <<>> THEN result = <<utterance>> ELSE result = <<>>

C1_Witness ==
    /\ phase = "built" /\ ncalls >= 1
    /\ DOMAIN synonymsdict = {}
    /\ utterance = Sentence(<<W_go, W_go>>)
    /\ result = <<utterance>>

\* C2: every generate() on one object returns the same multiset, the
\* multiset union of what add_synonyms() and add_phrases() return with
\* nothing removed between them, in some order, and leaves the stored
\* utterance, synonym map and phrase table as the constructor set them.
C2_SameMultiset ==
    (phase = "built" /\ ncalls >= 1) =>
        /\ BagOf(result) = firstbag
        /\ BagOf(result) = BagOf(add_synonyms(utterance, synonymsdict).ret)
                           (+) BagOf(add_phrases(utterance, phrasebank))
        /\ <<utterance, phrasebank, synonymsdict>> = asbuilt

\* a second call returned, in another order than the lists were joined in,
\* a list that holds one string twice: once as a word substitution and
\* once as a phrase substitution
C2_Witness ==
    /\ phase = "built" /\ ncalls = 2
    /\ utterance = Sentence(<<W_do, W_i, W_need>>)
    /\ CountIn(result, Sentence(<<W_will, W_i, W_need>>)) = 2
    /\ result # extended(utterance, synonymsdict, phrasebank)

=============================================================================
